---- MODULE Spec2Model ----
(***************************************************************************)
(* Data-preparation pipeline of the hydropower dashboard (src/app.py).     *)
(*                                                                         *)
(* The script is a Streamlit page: every user interaction reruns it from   *)
(* the top.  The model follows one session: the CSV on disk, the           *)
(* st.cache_data cache of load_data, the widget values kept by the         *)
(* session, and the position of the running script together with the       *)
(* tables it has built so far.                                             *)
(*                                                                         *)
(* Numbers.  Numeric columns are float64.  A numeric cell is modelled in   *)
(* fixed point with one binary digit after the point: Flt(w, h) is the     *)
(* float w + h/2, stored as the integer 2*w + h.  int(), astype(int) and   *)
(* the comparisons against integer slider values are computed on that      *)
(* representation, so a truncation is a truncation.                        *)
(***************************************************************************)
EXTENDS Integers, Sequences, FiniteSets, TLC

----------------------------------------------------------------------------
(* Bounds of the model *)

MaxRows == 2

MaxRuns == 2

----------------------------------------------------------------------------
(* Cells *)

\* a missing numeric cell (NaN)
NaN == [k |-> "nan", v |-> 0]

\* a cell holding text that does not parse as a number
Str == [k |-> "str", v |-> 0]

\* the float w + h/2
Flt(w, h) == [k |-> "num", v |-> 2 * w + h]

IsNum(c) == c.k = "num"

IsNaN(c) == c.k = "nan"

\* a missing text cell (NaN in an object column) and Python's None
NA == "NaN"

None == "None"

\* pandas' isna on a text cell
IsNA(s) == s \in {NA, None}

\* an int as the float it is compared as
ToFloat(i) == 2 * i

\* Python int(x) of a float: truncation toward zero
PyInt(v) == IF v >= 0 THEN v \div 2 ELSE -((-v) \div 2)

\* Python int(x / d) of a float x and a positive int d
IntOfQuotient(v, d) == IF v >= 0 THEN v \div (2 * d) ELSE -((-v) \div (2 * d))

----------------------------------------------------------------------------
(* The CSV file *)

CountryCells == {NA, "China", "CHN", "X"}

NameCells == {NA, "A"}

YearCells == {NaN, Str, Flt(1995, 0), Flt(1995, 1), Flt(2005, 0)}

CapacityCells == {NaN, Str, Flt(50, 0), Flt(150, 1), Flt(1200, 0)}

LatCells == {NaN, Flt(35, 1)}

LonCells == {NaN, Str, Flt(104, 0)}

VolumeCells == {NaN, Str, Flt(0, 1), Flt(200, 0)}

RawRows ==
    [country : CountryCells, name : NameCells, year : YearCells,
     capacity_mw : CapacityCells, plant_lat : LatCells, plant_lon : LonCells,
     res_vol_km3 : VolumeCells]

Fields ==
    {"country", "name", "year", "capacity_mw", "plant_lat", "plant_lon", "res_vol_km3"}

\* Row A of the two-row fixture, with a reservoir volume
RowA ==
    [country |-> "China", name |-> "A", year |-> Flt(2005, 0),
     capacity_mw |-> Flt(1200, 0), plant_lat |-> Flt(35, 1), plant_lon |-> Flt(104, 0),
     res_vol_km3 |-> Flt(200, 0)]

\* Row B of the two-row fixture
RowB ==
    [country |-> "X", name |-> NA, year |-> NaN, capacity_mw |-> NaN,
     plant_lat |-> NaN, plant_lon |-> NaN, res_vol_km3 |-> NaN]

\* the rows a file is made of: the fixture rows and every row that differs
\* from Row A in one cell; an empty year or capacity cell is Row B's
RowPool ==
    {RowB} \cup
    {r \in RawRows :
        /\ Cardinality({f \in Fields : r[f] # RowA[f]}) <= 1
        /\ ~IsNaN(r.year)
        /\ ~IsNaN(r.capacity_mw)}

\* whether no cell of the res_vol_km3 column is text: read_csv then gives the
\* column a numeric dtype, and an object dtype of Python strings otherwise
VolumeColumnNumeric(rows) == \A i \in 1..Len(rows) : rows[i].res_vol_km3.k # "str"

----------------------------------------------------------------------------
(* load_data *)

\* pd.to_numeric(column, errors='coerce'), cell by cell
to_numeric(c) == IF IsNum(c) THEN c ELSE NaN

\* df['res_vol_km3'] * 1_000, cell by cell.  On a numeric column the product
\* is a float and NaN stays NaN; on an object column every cell that is not
\* NaN is a Python string, and str * 1000 is the string repeated
times_1000(c, numeric) ==
    IF IsNaN(c) THEN NaN
    ELSE IF numeric THEN [k |-> "num", v |-> c.v * 1000]
    ELSE Str

\* pycountry's name index, restricted to the names of the model
CountryIndex ==
    ("China" :> "CHN") @@ ("CHN" :> "CHN") @@ ("United States" :> "USA")

\* iso3(country_name): the alpha_3 of the record found, None on LookupError
\* (a NaN cell is no str and is not found either)
iso3(country_name) ==
    IF country_name \in DOMAIN CountryIndex THEN CountryIndex[country_name] ELSE None

\* the row of df built from row i of the file
PreparedRow(file, i) ==
    LET r == file.rows[i] IN
    [idx |-> i - 1,
     country |-> r.country,
     name |-> r.name,
     year |-> to_numeric(r.year),
     capacity_mw |-> to_numeric(r.capacity_mw),
     plant_lat |-> r.plant_lat,
     plant_lon |-> r.plant_lon,
     res_vol_km3 |-> r.res_vol_km3,
     res_vol_mcm |-> IF file.has_res_vol
                     THEN times_1000(r.res_vol_km3, VolumeColumnNumeric(file.rows))
                     ELSE NaN,
     Country_Iso3 |-> iso3(r.country)]

\* df.dropna() over the coordinates and the code: a row without code is lost too
HasCoordinatesAndCode(r) ==
    ~IsNaN(r.plant_lat) /\ ~IsNaN(r.plant_lon) /\ ~IsNA(r.Country_Iso3)

\* df.dropna(subset=['plant_lat', 'plant_lon']): keeps the rows where neither
\* cell is NaN
HasCoordinates(r) == ~IsNaN(r.plant_lat) /\ ~IsNaN(r.plant_lon)

\* the body of load_data
load_data_body(file) ==
    SelectSeq([i \in 1..Len(file.rows) |-> PreparedRow(file, i)], HasCoordinates)

----------------------------------------------------------------------------
(* Column reductions and ordering *)

Indices(t) == 1..Len(t)

Elements(t) == {t[n] : n \in Indices(t)}

\* the cells of one column that are numbers (the reductions skip NaN)
NumericValues(t, col) == {t[i][col].v : i \in {j \in Indices(t) : IsNum(t[j][col])}}

\* whether a column holds a Python string
HasStr(t, col) == \E i \in Indices(t) : t[i][col].k = "str"

SetMax(S) == CHOOSE x \in S : \A y \in S : y <= x

SetMin(S) == CHOOSE x \in S : \A y \in S : x <= y

\* Series.max() and Series.min() of a float column: NaN when no cell is a number
column_max(t, col) ==
    IF NumericValues(t, col) = {} THEN NaN
    ELSE [k |-> "num", v |-> SetMax(NumericValues(t, col))]

column_min(t, col) ==
    IF NumericValues(t, col) = {} THEN NaN
    ELSE [k |-> "num", v |-> SetMin(NumericValues(t, col))]

\* Python's order on the strings of the model (by code point)
StrOrder == <<"A", "CHN", "China", "NaN", "None", "USA", "United States", "X">>

StrRank(s) == CHOOSE i \in 1..Len(StrOrder) : StrOrder[i] = s

StrLess(a, b) == StrRank(a) < StrRank(b)

\* a set of strings in increasing order
SortedStrings(S) ==
    [n \in 1..Cardinality(S) |->
        CHOOSE x \in S : Cardinality({y \in S : StrLess(y, x)}) = n - 1]

\* sum() of capacity_mw over the rows at the positions in S, NaN skipped
\* (the sum of no number is 0)
RECURSIVE SumCapacity(_, _)
SumCapacity(t, S) ==
    IF S = {} THEN 0
    ELSE LET i == CHOOSE j \in S : TRUE IN
         (IF IsNum(t[i].capacity_mw) THEN t[i].capacity_mw.v ELSE 0)
             + SumCapacity(t, S \ {i})

----------------------------------------------------------------------------
(* The aggregated views *)

\* grouping by the country name and labelling each group with its code
GroupByCountryLabelledIso3(t) ==
    LET resolved == {i \in Indices(t) : ~IsNA(t[i].Country_Iso3)}
        keys == SortedStrings({t[i].country : i \in resolved}) IN
    [n \in 1..Len(keys) |->
        [Country_Iso3 |-> iso3(keys[n]),
         capacity_mw |->
            [k |-> "num",
             v |-> SumCapacity(t, {i \in resolved : t[i].country = keys[n]})]]]

\* df.groupby('Country_Iso3', as_index=False)['capacity_mw'].sum(): rows whose
\* key is missing are dropped, the groups come in key order
GroupByIso3(t) ==
    LET keys == SortedStrings({t[i].Country_Iso3 : i \in Indices(t)} \ {NA, None}) IN
    [n \in 1..Len(keys) |->
        [Country_Iso3 |-> keys[n],
         capacity_mw |->
            [k |-> "num",
             v |-> SumCapacity(t, {i \in Indices(t) : t[i].Country_Iso3 = keys[n]})]]]

PairLess(a, b) ==
    \/ StrLess(a[1], b[1])
    \/ a[1] = b[1] /\ StrLess(a[2], b[2])

\* a set of (country, name) keys in increasing order
SortedPairs(S) ==
    [n \in 1..Cardinality(S) |->
        CHOOSE x \in S : Cardinality({y \in S : PairLess(y, x)}) = n - 1]

\* the three columns without the grouping: one row per plant
SelectCountryName(t) ==
    LET present(r) == ~IsNA(r.country) /\ ~IsNA(r.name)
        kept == SelectSeq(t, present) IN
    [n \in 1..Len(kept) |->
        [country |-> kept[n].country,
         name |-> kept[n].name,
         capacity_mw |-> [k |-> "num", v |-> SumCapacity(kept, {n})]]]

\* df.groupby(['country', 'name'], as_index=False)['capacity_mw'].sum()
GroupByCountryName(t) ==
    LET present == {i \in Indices(t) : ~IsNA(t[i].country) /\ ~IsNA(t[i].name)}
        keys == SortedPairs({<<t[i].country, t[i].name>> : i \in present}) IN
    [n \in 1..Len(keys) |->
        [country |-> keys[n][1],
         name |-> keys[n][2],
         capacity_mw |->
            [k |-> "num",
             v |-> SumCapacity(t, {i \in present :
                                    <<t[i].country, t[i].name>> = keys[n]})]]]

\* dropna(subset=['year', 'country']): capacity_mw left out of the subset
TsCompleteWithoutCapacity(r) == ~IsNaN(r.year) /\ ~IsNA(r.country)

\* df.dropna(subset=['year', 'country', 'capacity_mw'])
TsComplete(r) == ~IsNaN(r.year) /\ ~IsNA(r.country) /\ ~IsNaN(r.capacity_mw)

dropna_ts(t) == SelectSeq(t, TsComplete)

CountryYearLess(a, b) ==
    \/ StrLess(a[1], b[1])
    \/ a[1] = b[1] /\ a[2] < b[2]

\* a set of (country, year) keys in increasing order
SortedCountryYears(S) ==
    [n \in 1..Cardinality(S) |->
        CHOOSE x \in S : Cardinality({y \in S : CountryYearLess(y, x)}) = n - 1]

\* df_ts.groupby(['country', 'year'], as_index=False)['capacity_mw'].sum()
GroupByCountryYear(t) ==
    LET present == {i \in Indices(t) : ~IsNA(t[i].country) /\ IsNum(t[i].year)}
        keys == SortedCountryYears({<<t[i].country, t[i].year.v>> : i \in present}) IN
    [n \in 1..Len(keys) |->
        [country |-> keys[n][1],
         year |-> [k |-> "num", v |-> keys[n][2]],
         capacity_mw |->
            [k |-> "num",
             v |-> SumCapacity(t, {i \in present :
                                    <<t[i].country, t[i].year.v>> = keys[n]})]]]

\* sorted(yearly_country['country'].dropna().unique())
AvailableCountries(yc) == SortedStrings({yc[n].country : n \in Indices(yc)})

InSeq(x, q) == \E n \in 1..Len(q) : q[n] = x

\* [c for c in default_candidates if c in available_countries]
DefaultCountries(available) ==
    LET here(c) == InSeq(c, available) IN
    SelectSeq(<<"China", "United States">>, here)

----------------------------------------------------------------------------
(* The filtered views *)

\* column >= threshold for a float cell and an int threshold: False on NaN
GreaterEq(c, threshold) == IsNum(c) /\ c.v >= ToFloat(threshold)

\* column < threshold: the upper bound left out
LessThan(c, threshold) == IsNum(c) /\ c.v < ToFloat(threshold)

LessEq(c, threshold) == IsNum(c) /\ c.v <= ToFloat(threshold)

\* df[(df['res_vol_mcm'] >= min_volume) & (df['capacity_mw'] >= min_capacity)]
FilterBubble(t, min_vol, min_cap) ==
    LET keep(r) == GreaterEq(r.res_vol_mcm, min_vol) /\ GreaterEq(r.capacity_mw, min_cap) IN
    SelectSeq(t, keep)

\* the boolean mask of df_anim
AnimMask(r, min_cap, range) ==
    /\ GreaterEq(r.capacity_mw, min_cap)
    /\ GreaterEq(r.year, range[1])
    /\ LessEq(r.year, range[2])

\* .dropna(subset=['year', 'plant_lat', 'plant_lon', 'capacity_mw'])
AnimComplete(r) ==
    ~IsNaN(r.year) /\ ~IsNaN(r.plant_lat) /\ ~IsNaN(r.plant_lon) /\ ~IsNaN(r.capacity_mw)

\* the year cut down to its decade
astype_decade(c) == [k |-> "num", v |-> ToFloat((PyInt(c.v) \div 10) * 10)]

\* Series.astype(int) of a float cell without NaN: truncation
astype_int(c) == [k |-> "num", v |-> ToFloat(PyInt(c.v))]

\* df_anim.sort_values('year'): rows in year order, equal years in their
\* order of arrival
sort_values_year(t) ==
    LET before(i, j) ==
            \/ t[i].year.v < t[j].year.v
            \/ t[i].year.v = t[j].year.v /\ i < j IN
    [n \in 1..Len(t) |->
        t[CHOOSE j \in Indices(t) :
            Cardinality({i \in Indices(t) : before(i, j)}) = n - 1]]

\* df_anim as the script leaves it: mask, dropna, year as int, sort
FilterAnim(t, min_cap, range) ==
    LET keep(r) == AnimMask(r, min_cap, range) /\ AnimComplete(r)
        kept == SelectSeq(t, keep) IN
    sort_values_year([n \in 1..Len(kept) |->
                        [kept[n] EXCEPT !.year = astype_int(kept[n].year)]])

----------------------------------------------------------------------------
(* Streamlit: the cache and the widgets *)

\* load_data without the decorator: the body runs at every call
uncached(entry, file) ==
    [value |-> load_data_body(file), entry |-> entry, ran |-> 1]

\* @st.cache_data on a function without arguments: the body runs when the
\* cache holds no entry, and the entry is returned otherwise
cache_data(entry, file) ==
    IF entry = << >>
    THEN [value |-> load_data_body(file), entry |-> <<load_data_body(file)>>, ran |-> 1]
    ELSE [value |-> entry[1], entry |-> entry, ran |-> 0]

Min2(a, b) == IF a <= b THEN a ELSE b

Max2(a, b) == IF a >= b THEN a ELSE b

\* value=100 of the two threshold sliders
DefaultThreshold == 100

\* step=10 of the two threshold sliders
ThresholdStep == 10

\* * 1_000 applied to the volume slider's value
VolumeFactor == 1000

\* the range st.slider gives a single-value slider: the bounds are put in
\* order and widened to hold the default value
SliderRange(min_value, max_value, value) ==
    <<Min2(Min2(min_value, max_value), value), Max2(Max2(min_value, max_value), value)>>

\* what a widget returns: the value the user set in this session, else its default
WidgetValue(state, default) == IF state = << >> THEN default ELSE state[1]

\* the positions the user moves a threshold slider to
CapacityPicks == {0, 1200}

VolumePicks == {0, 200}

\* the year the user moves one end of the range slider to
YearPicks == {2000}

OnSlider(v, range, step) == range[1] <= v /\ v <= range[2] /\ (v - range[1]) % step = 0

----------------------------------------------------------------------------
(* The session *)

VARIABLES
    file,                 \* GloHydroRes_vs1.csv
    cache,                \* the st.cache_data entry of load_data
    load_calls,           \* how many times the body of load_data has run
    first_df,             \* the table the first run got from load_data
    widgets,              \* the widget values the user has set
    runs,                 \* script runs started in this session
    pc,                   \* the statement the running script is at
    err,                  \* the exception that ended the run
    df,
    capacity_range,       \* range of the capacity slider as rendered
    min_capacity,
    volume_range,         \* range of the volume slider as rendered
    min_volume,
    year_bounds,          \* <<year_min, year_max>>
    selected_year_range,
    country_cap,
    df_bubble,
    sun,
    yearly_country,
    available_countries,
    countries,
    df_anim

session == <<file, cache, load_calls, first_df, widgets, runs>>

script ==
    <<df, capacity_range, min_capacity, volume_range, min_volume, year_bounds,
      selected_year_range, country_cap, df_bubble, sun, yearly_country,
      available_countries, countries, df_anim>>

vars == <<session, pc, err, script>>

\* the files of the model: with or without the res_vol_km3 column, up to
\* MaxRows rows
Files ==
    {f \in [has_res_vol : BOOLEAN,
            rows : UNION {[1..n -> RowPool] : n \in 0..MaxRows}] :
        f.has_res_vol \/ \A i \in 1..Len(f.rows) : IsNaN(f.rows[i].res_vol_km3)}

\* the script's namespace before its first statement
FreshScript ==
    /\ df = << >>
    /\ capacity_range = <<0, 0>>
    /\ min_capacity = 0
    /\ volume_range = <<0, 0>>
    /\ min_volume = 0
    /\ year_bounds = <<0, 0>>
    /\ selected_year_range = <<0, 0>>
    /\ country_cap = << >>
    /\ df_bubble = << >>
    /\ sun = << >>
    /\ yearly_country = << >>
    /\ available_countries = << >>
    /\ countries = << >>
    /\ df_anim = << >>

Init ==
    /\ file \in Files
    /\ cache = << >>
    /\ load_calls = 0
    /\ first_df = << >>
    /\ widgets = [capacity |-> << >>, volume |-> << >>, year |-> << >>, countries |-> << >>]
    /\ runs = 1
    /\ pc = "load"
    /\ err = "none"
    /\ FreshScript

\* an uncaught exception ends the run
Raise(e) ==
    /\ pc' = "error"
    /\ err' = e

Goto(p) ==
    /\ pc' = p
    /\ err' = err

\* df = load_data()
Load ==
    /\ pc = "load"
    /\ LET got == cache_data(cache, file) IN
        /\ df' = got.value
        /\ cache' = got.entry
        /\ load_calls' = load_calls + got.ran
        /\ first_df' = IF runs = 1 THEN got.value ELSE first_df
    /\ Goto("slider_capacity")
    /\ UNCHANGED <<file, widgets, runs, capacity_range, min_capacity, volume_range,
                   min_volume, year_bounds, selected_year_range, country_cap,
                   df_bubble, sun, yearly_country, available_countries, countries,
                   df_anim>>

\* min_capacity = st.sidebar.slider(..., max_value=int(df['capacity_mw'].max()), ...)
\* int(nan) raises ValueError
SliderCapacity ==
    /\ pc = "slider_capacity"
    /\ LET m == column_max(df, "capacity_mw") IN
        IF IsNaN(m)
        THEN /\ Raise("ValueError")
             /\ UNCHANGED <<capacity_range, min_capacity>>
        ELSE /\ capacity_range' = SliderRange(0, PyInt(m.v), DefaultThreshold)
             /\ min_capacity' = WidgetValue(widgets.capacity, DefaultThreshold)
             /\ Goto("slider_volume")
    /\ UNCHANGED <<session, df, volume_range, min_volume, year_bounds,
                   selected_year_range, country_cap, df_bubble, sun, yearly_country,
                   available_countries, countries, df_anim>>

\* min_volume = st.sidebar.slider(..., max_value=int(df['res_vol_mcm'].max() / 1_000), ...) * 1_000
\* a str cannot be divided (TypeError), int(nan) raises ValueError
SliderVolume ==
    /\ pc = "slider_volume"
    /\ LET m == column_max(df, "res_vol_mcm") IN
        IF HasStr(df, "res_vol_mcm")
        THEN /\ Raise("TypeError")
             /\ UNCHANGED <<volume_range, min_volume>>
        ELSE IF IsNaN(m)
        THEN /\ Raise("ValueError")
             /\ UNCHANGED <<volume_range, min_volume>>
        ELSE /\ volume_range' =
                    SliderRange(0, IntOfQuotient(m.v, VolumeFactor), DefaultThreshold)
             /\ min_volume' = WidgetValue(widgets.volume, DefaultThreshold) * VolumeFactor
             /\ Goto("slider_year")
    /\ UNCHANGED <<session, df, capacity_range, min_capacity, year_bounds,
                   selected_year_range, country_cap, df_bubble, sun, yearly_country,
                   available_countries, countries, df_anim>>

\* year_min, year_max and the range slider
SliderYear ==
    /\ pc = "slider_year"
    /\ LET lo == column_min(df, "year")
           hi == column_max(df, "year") IN
        IF IsNaN(lo)
        THEN /\ Raise("ValueError")
             /\ UNCHANGED <<year_bounds, selected_year_range>>
        ELSE /\ year_bounds' = <<PyInt(lo.v), PyInt(hi.v)>>
             /\ selected_year_range' =
                    WidgetValue(widgets.year, <<PyInt(lo.v), PyInt(hi.v)>>)
             /\ Goto("choropleth")
    /\ UNCHANGED <<session, df, capacity_range, min_capacity, volume_range, min_volume,
                   country_cap, df_bubble, sun, yearly_country, available_countries,
                   countries, df_anim>>

\* 1. Choropleth map
Choropleth ==
    /\ pc = "choropleth"
    /\ country_cap' = GroupByIso3(df)
    /\ Goto("bubble")
    /\ UNCHANGED <<session, df, capacity_range, min_capacity, volume_range, min_volume,
                   year_bounds, selected_year_range, df_bubble, sun, yearly_country,
                   available_countries, countries, df_anim>>

\* 2. Bubble map (res_vol_mcm holds no str here: the volume slider has been built)
Bubble ==
    /\ pc = "bubble"
    /\ df_bubble' = FilterBubble(df, min_volume, min_capacity)
    /\ Goto("sunburst")
    /\ UNCHANGED <<session, df, capacity_range, min_capacity, volume_range, min_volume,
                   year_bounds, selected_year_range, country_cap, sun, yearly_country,
                   available_countries, countries, df_anim>>

\* 3. Sunburst chart
Sunburst ==
    /\ pc = "sunburst"
    /\ sun' = GroupByCountryName(df)
    /\ Goto("time_series")
    /\ UNCHANGED <<session, df, capacity_range, min_capacity, volume_range, min_volume,
                   year_bounds, selected_year_range, country_cap, df_bubble,
                   yearly_country, available_countries, countries, df_anim>>

\* 4. Time series: yearly_country and the country multiselect
TimeSeries ==
    /\ pc = "time_series"
    /\ LET yc == GroupByCountryYear(dropna_ts(df)) IN
        /\ yearly_country' = yc
        /\ available_countries' = AvailableCountries(yc)
        /\ countries' = WidgetValue(widgets.countries,
                                    DefaultCountries(AvailableCountries(yc)))
    /\ Goto("animated")
    /\ UNCHANGED <<session, df, capacity_range, min_capacity, volume_range, min_volume,
                   year_bounds, selected_year_range, country_cap, df_bubble, sun,
                   df_anim>>

\* 5. Animated map; the treemap after it builds no table
Animated ==
    /\ pc = "animated"
    /\ df_anim' = FilterAnim(df, min_capacity, selected_year_range)
    /\ Goto("done")
    /\ UNCHANGED <<session, df, capacity_range, min_capacity, volume_range, min_volume,
                   year_bounds, selected_year_range, country_cap, df_bubble, sun,
                   yearly_country, available_countries, countries>>

\* the statements of the script that the run has passed
Statements ==
    <<"load", "slider_capacity", "slider_volume", "slider_year", "choropleth",
      "bubble", "sunburst", "time_series", "animated", "done">>

Later ==
    [p \in Elements(Statements) |->
        {q \in Elements(Statements) :
            \E m, n \in 1..Len(Statements) :
                Statements[m] = p /\ Statements[n] = q /\ m < n}]

Passed(p) == pc \in Later[p]

\* the new values the user can give a widget of the page as it stands
Choices(w) ==
    CASE w = "capacity" ->
            {<<v>> : v \in {x \in CapacityPicks : OnSlider(x, capacity_range, ThresholdStep)}}
      [] w = "volume" ->
            {<<v>> : v \in {x \in VolumePicks : OnSlider(x, volume_range, ThresholdStep)}}
      [] w = "year" ->
            {<<r>> : r \in {q \in ({year_bounds[1]} \X YearPicks)
                                    \cup (YearPicks \X {year_bounds[2]}) :
                                year_bounds[1] <= q[1] /\ q[1] <= q[2]
                                    /\ q[2] <= year_bounds[2]}}
      [] w = "countries" -> {<< << >> >>}

\* the widgets the finished run has put on the page
Rendered ==
    {w \in {"capacity", "volume", "year", "countries"} :
        \/ w = "capacity" /\ capacity_range # <<0, 0>>
        \/ w = "volume" /\ volume_range # <<0, 0>>
        \/ w = "year" /\ Passed("slider_year")
        \/ w = "countries" /\ Passed("time_series")}

\* the user moves a slider or edits the multiselect: the session keeps the
\* value and the script runs again from the top
Rerun ==
    /\ pc \in {"done", "error"}
    /\ runs < MaxRuns
    /\ \E w \in Rendered :
        \E c \in Choices(w) :
            /\ c # widgets[w]
            /\ widgets' = [widgets EXCEPT ![w] = c]
    /\ runs' = runs + 1
    /\ pc' = "load"
    /\ err' = "none"
    /\ df' = << >>
    /\ capacity_range' = <<0, 0>>
    /\ min_capacity' = 0
    /\ volume_range' = <<0, 0>>
    /\ min_volume' = 0
    /\ year_bounds' = <<0, 0>>
    /\ selected_year_range' = <<0, 0>>
    /\ country_cap' = << >>
    /\ df_bubble' = << >>
    /\ sun' = << >>
    /\ yearly_country' = << >>
    /\ available_countries' = << >>
    /\ countries' = << >>
    /\ df_anim' = << >>
    /\ UNCHANGED <<file, cache, load_calls, first_df>>

Next ==
    \/ Load
    \/ SliderCapacity
    \/ SliderVolume
    \/ SliderYear
    \/ Choropleth
    \/ Bubble
    \/ Sunburst
    \/ TimeSeries
    \/ Animated
    \/ Rerun

Spec == Init /\ [][Next]_vars

----------------------------------------------------------------------------
(* Vocabulary of the properties *)

RECURSIVE SeqSum(_)
SeqSum(q) == IF q = << >> THEN 0 ELSE Head(q) + SeqSum(Tail(q))

\* what a row adds to a sum of capacity_mw: a missing capacity adds zero
Contribution(r) == IF IsNum(r.capacity_mw) THEN r.capacity_mw.v ELSE 0

\* the sum of capacity_mw over the rows of t at the positions in S
TotalAt(t, S) ==
    SeqSum([i \in Indices(t) |-> IF i \in S THEN Contribution(t[i]) ELSE 0])

\* whether the row of df with index idx is a row of the view
InView(view, idx) == \E n \in Indices(view) : view[n].idx = idx

\* load_data has returned in the current run
Loaded == pc = "error" \/ Passed("load")

----------------------------------------------------------------------------
(* C1 *)

\* C1: a row of the file is in the cleaned table if and only if both its
\* plant_lat and its plant_lon are present and numeric.
C1_KeptIffNumericCoordinates ==
    Loaded =>
        \A i \in 1..Len(file.rows) :
            InView(df, i - 1) <=>
                IsNum(file.rows[i].plant_lat) /\ IsNum(file.rows[i].plant_lon)

----------------------------------------------------------------------------
(* C2 *)

\* out has one row per resolved code of t, holding the sum of the capacities
\* of the rows of t with that code
IsCountryCapOf(out, t) ==
    LET codes == {t[i].Country_Iso3 : i \in Indices(t)} \ {NA, None} IN
    /\ \A c \in codes :
            Cardinality({n \in Indices(out) : out[n].Country_Iso3 = c}) = 1
    /\ \A n \in Indices(out) :
            LET same(r) == r.Country_Iso3 = out[n].Country_Iso3 IN
            /\ out[n].Country_Iso3 \in codes
            /\ out[n].capacity_mw = [k |-> "num", v |-> TotalAt(t, {i \in Indices(t) : same(t[i])})]

\* C2: country_cap has exactly one row per distinct resolved ISO3 code of the
\* cleaned table, its capacity is the sum of capacity_mw over the cleaned rows
\* with that code (a missing capacity counts zero), and the two-row fixture
\* gives the single row {CHN: 1200}.
C2_CountryCapSums ==
    /\ pc = "slider_capacity" => IsCountryCapOf(GroupByIso3(df), df)
    /\ Passed("choropleth") => IsCountryCapOf(country_cap, df)
    /\ Passed("choropleth") /\ file.rows = <<RowA, RowB>> =>
            country_cap = <<[Country_Iso3 |-> "CHN", capacity_mw |-> Flt(1200, 0)]>>

\* two spellings of one country and an uncoercible capacity, summed in one row
C2_Witness ==
    /\ Passed("choropleth")
    /\ Len(df) = 2
    /\ df[1].country = "China" /\ IsNaN(df[1].capacity_mw)
    /\ df[2].country = "CHN"
    /\ country_cap = <<[Country_Iso3 |-> "CHN", capacity_mw |-> Flt(1200, 0)]>>

----------------------------------------------------------------------------
(* C3 *)

\* C3: a row of the cleaned table is in a filtered view exactly when it meets
\* every predicate of that view: capacity_mw >= min_capacity and
\* res_vol_mcm >= min_volume for the bubble view, capacity_mw >= min_capacity
\* and start <= year <= end (both inclusive) for the animated view; a row with
\* a missing value on a filtered field is in neither.
C3_FilterExact ==
    /\ Passed("bubble") =>
            \A i \in Indices(df) :
                InView(df_bubble, df[i].idx) <=>
                    /\ IsNum(df[i].capacity_mw)
                    /\ df[i].capacity_mw.v >= 2 * min_capacity
                    /\ IsNum(df[i].res_vol_mcm)
                    /\ df[i].res_vol_mcm.v >= 2 * min_volume
    /\ Passed("animated") =>
            \A i \in Indices(df) :
                InView(df_anim, df[i].idx) <=>
                    /\ IsNum(df[i].capacity_mw)
                    /\ df[i].capacity_mw.v >= 2 * min_capacity
                    /\ IsNum(df[i].year)
                    /\ 2 * selected_year_range[1] <= df[i].year.v
                    /\ df[i].year.v <= 2 * selected_year_range[2]

\* the range [2000, 2005] leaves the plant of 1995 out and keeps the one of 2005
C3_Witness ==
    /\ pc = "done"
    /\ selected_year_range = <<2000, 2005>>
    /\ \E i \in Indices(df) : df[i].year = Flt(1995, 0) /\ ~InView(df_anim, df[i].idx)
    /\ \E i \in Indices(df) : df[i].year = Flt(2005, 0) /\ InView(df_anim, df[i].idx)

----------------------------------------------------------------------------
(* C4 *)

\* C4: once load has succeeded no later step of the script fails, whatever
\* the cleaned table (stated here for the tables that have a row).
C4_NoDownstreamError == Loaded /\ df # << >> => pc # "error"

----------------------------------------------------------------------------
(* C5 *)

\* C5: after load every cell of year, capacity_mw and res_vol_mcm is a number
\* or missing; res_vol_mcm is res_vol_km3 * 1000 where the source cell is a
\* number and missing where it is missing, uncoercible or the column absent.
C5_UncoercibleBecomesMissing ==
    Loaded =>
        \A n \in Indices(df) :
            LET raw == file.rows[df[n].idx + 1] IN
            /\ df[n].year = (IF IsNum(raw.year) THEN raw.year ELSE NaN)
            /\ df[n].capacity_mw = (IF IsNum(raw.capacity_mw) THEN raw.capacity_mw ELSE NaN)
            /\ df[n].res_vol_mcm =
                    (IF file.has_res_vol /\ IsNum(raw.res_vol_km3)
                     THEN [k |-> "num", v |-> raw.res_vol_km3.v * 1000]
                     ELSE NaN)

----------------------------------------------------------------------------
(* C6 *)

\* the bubble and animated views hold the row exactly when it meets their
\* thresholds
InFilteredViewsWhenQualified(r) ==
    /\ Passed("bubble") =>
            (InView(df_bubble, r.idx) <=>
                GreaterEq(r.res_vol_mcm, min_volume) /\ GreaterEq(r.capacity_mw, min_capacity))
    /\ Passed("animated") =>
            (InView(df_anim, r.idx) <=>
                /\ GreaterEq(r.capacity_mw, min_capacity)
                /\ GreaterEq(r.year, selected_year_range[1])
                /\ LessEq(r.year, selected_year_range[2]))

\* sun has a row for the (country, name) of r whose sum counts r
InSun(r) ==
    \E n \in Indices(sun) :
        LET same(x) == x.country = r.country /\ x.name = r.name IN
        /\ sun[n].country = r.country
        /\ sun[n].name = r.name
        /\ sun[n].capacity_mw.v = TotalAt(df, {i \in Indices(df) : same(df[i])})

\* yearly_country has a row for the (country, year) of r whose sum counts r
InYearly(r) ==
    \E n \in Indices(yearly_country) :
        LET same(x) == x.country = r.country /\ x.year = r.year /\ IsNum(x.capacity_mw) IN
        /\ yearly_country[n].country = r.country
        /\ yearly_country[n].year = r.year
        /\ yearly_country[n].capacity_mw.v = TotalAt(df, {i \in Indices(df) : same(df[i])})

\* the rows of the file with coordinates whose country has no code
Unresolved(i) ==
    /\ file.rows[i].country \notin {"China", "CHN"}
    /\ ~IsNaN(file.rows[i].plant_lat)
    /\ ~IsNaN(file.rows[i].plant_lon)

\* C6 as claimed: a row whose country has no code (a missing country cell
\* included) is in the cleaned table with code None, is in no row of
\* country_cap, and is still counted by sun when it has a name, by
\* yearly_country when it has a year and a capacity, and held by the filtered
\* views when it meets their thresholds.
C6_AbsentOnlyFromCountryCap ==
    \A i \in 1..Len(file.rows) :
        Unresolved(i) /\ Loaded =>
            \E n \in Indices(df) :
                /\ df[n].idx = i - 1
                /\ df[n].Country_Iso3 = None
                /\ Passed("choropleth") =>
                        \A m \in Indices(country_cap) :
                            country_cap[m].Country_Iso3 \notin {None, NA}
                /\ Passed("sunburst") /\ ~IsNA(df[n].name) => InSun(df[n])
                /\ Passed("time_series") /\ IsNum(df[n].year) /\ IsNum(df[n].capacity_mw)
                        => InYearly(df[n])
                /\ InFilteredViewsWhenQualified(df[n])

\* C6 as amended: the same, where sun and yearly_country count the row when
\* its country cell is present as well; a row with a missing country cell is
\* in neither of them.
C6_AbsentFromCodeAndMissingCountryKeys ==
    \A i \in 1..Len(file.rows) :
        Unresolved(i) /\ Loaded =>
            \E n \in Indices(df) :
                /\ df[n].idx = i - 1
                /\ df[n].Country_Iso3 = None
                /\ Passed("choropleth") =>
                        \A m \in Indices(country_cap) :
                            country_cap[m].Country_Iso3 \notin {None, NA}
                /\ Passed("sunburst") =>
                        IF IsNA(df[n].country)
                        THEN \A m \in Indices(sun) : sun[m].country # df[n].country
                        ELSE ~IsNA(df[n].name) => InSun(df[n])
                /\ Passed("time_series") =>
                        IF IsNA(df[n].country)
                        THEN \A m \in Indices(yearly_country) :
                                yearly_country[m].country # df[n].country
                        ELSE IsNum(df[n].year) /\ IsNum(df[n].capacity_mw) => InYearly(df[n])
                /\ InFilteredViewsWhenQualified(df[n])

\* a plant of the unknown country X that is in sun, yearly_country and both
\* filtered views and in no row of country_cap, beside a plant without country
C6_Witness ==
    /\ pc = "done"
    /\ Len(df) = 2
    /\ df[1].country = "X" /\ df[1].Country_Iso3 = None
    /\ df[2].country = NA /\ df[2].Country_Iso3 = None
    /\ country_cap = << >>
    /\ InSun(df[1]) /\ InYearly(df[1])
    /\ InView(df_bubble, df[1].idx) /\ InView(df_anim, df[1].idx)
    /\ InView(df_bubble, df[2].idx) /\ InView(df_anim, df[2].idx)
    /\ Len(sun) = 1 /\ Len(yearly_country) = 1

----------------------------------------------------------------------------
(* C7 *)

\* out has a row for a (country, year) exactly when a row of t has that pair
\* with country, year and capacity_mw present, and holds the sum over those rows
IsYearlyOf(out, t) ==
    LET full == {i \in Indices(t) :
                    ~IsNA(t[i].country) /\ IsNum(t[i].year) /\ IsNum(t[i].capacity_mw)} IN
    /\ \A i \in full :
            \E n \in Indices(out) :
                out[n].country = t[i].country /\ out[n].year = t[i].year
    /\ \A n \in Indices(out) :
            LET same(r) ==
                    /\ r.country = out[n].country
                    /\ r.year = out[n].year
                    /\ IsNum(r.capacity_mw) IN
            /\ \E i \in full :
                    t[i].country = out[n].country /\ t[i].year = out[n].year
            /\ out[n].capacity_mw = [k |-> "num", v |-> TotalAt(t, {i \in Indices(t) : same(t[i])})]

\* C7: yearly_country has a row for a (country, year) pair exactly when some
\* cleaned row has that pair with year, country and capacity_mw all present,
\* and its capacity is the sum over exactly those rows.
C7_YearlyCountryExact ==
    /\ pc = "slider_capacity" => IsYearlyOf(GroupByCountryYear(dropna_ts(df)), df)
    /\ Passed("time_series") => IsYearlyOf(yearly_country, df)

\* a plant with an uncoercible capacity beside a complete one of another year
C7_Witness ==
    /\ Passed("time_series")
    /\ Len(df) = 2
    /\ df[1].year = Flt(2005, 0) /\ IsNaN(df[1].capacity_mw) /\ df[1].country = "China"
    /\ df[2].year = Flt(1995, 0) /\ IsNum(df[2].capacity_mw)
    /\ Len(yearly_country) = 1
    /\ yearly_country[1].year = Flt(1995, 0)

----------------------------------------------------------------------------
(* C8 *)

\* C8: filtering a filtered view again with the same settings returns the
\* same rows, for the bubble view and for the animated view with its
\* conversion of year to int and its sort.
C8_FilterIdempotent ==
    /\ Passed("bubble") =>
            FilterBubble(df_bubble, min_volume, min_capacity) = df_bubble
    /\ Passed("animated") =>
            LET again == FilterAnim(df_anim, min_capacity, selected_year_range) IN
            /\ Len(again) = Len(df_anim)
            /\ Elements(again) = Elements(df_anim)

\* a plant of year 1995.5 is kept, its year becomes 1995 and the sort puts it
\* before the plant of 2005 that came first in the file
C8_Witness ==
    /\ pc = "done"
    /\ Len(df) = 2
    /\ df[1].year = Flt(2005, 0)
    /\ df[2].year = Flt(1995, 1)
    /\ Len(df_anim) = 2
    /\ df_anim[1].idx = 1 /\ df_anim[1].year = Flt(1995, 0)
    /\ df_anim[2].idx = 0
    /\ Len(df_bubble) = 2

----------------------------------------------------------------------------
(* C9 *)

\* C9: over the runs of a session the body of load_data runs at most once,
\* in the first run, and every later run gets the table of the first run.
C9_LoadedOnce ==
    /\ load_calls <= 1
    /\ Loaded \/ runs > 1 => load_calls = 1
    /\ Loaded => df = first_df

\* a second run, started by a widget, has its table from the cache
C9_Witness ==
    /\ runs = 2
    /\ Passed("load")
    /\ df # << >>
    /\ load_calls = 1

----------------------------------------------------------------------------
(* C10 *)

\* C10: no two rows of country_cap share a country code, no two rows of sun
\* share a (country, name), no two rows of yearly_country share a
\* (country, year).
C10_GroupKeysUnique ==
    /\ Passed("choropleth") =>
            \A m, n \in Indices(country_cap) :
                country_cap[m].Country_Iso3 = country_cap[n].Country_Iso3 => m = n
    /\ Passed("sunburst") =>
            \A m, n \in Indices(sun) :
                sun[m].country = sun[n].country /\ sun[m].name = sun[n].name => m = n
    /\ Passed("time_series") =>
            \A m, n \in Indices(yearly_country) :
                yearly_country[m].country = yearly_country[n].country
                    /\ yearly_country[m].year = yearly_country[n].year => m = n

\* two plants with one name, country and year, folded into one row of each view
C10_Witness ==
    /\ pc = "done"
    /\ Len(df) = 2
    /\ df[1].country = df[2].country /\ df[1].name = df[2].name /\ df[1].year = df[2].year
    /\ Len(country_cap) = 1 /\ Len(sun) = 1 /\ Len(yearly_country) = 1
    /\ sun[1].capacity_mw = Flt(2400, 0)

====
